---- MODULE Spec2Model ----
(***************************************************************************)
(* The cookbook of src/backend/ts_template/devdonalds.ts: the in-memory    *)
(* registry filled by POST /entry and the recipe summary computed by       *)
(* GET /summary through gatherRecipeData.  Every request is handled        *)
(* run-to-completion, so each handler is one action.                       *)
(***************************************************************************)
EXTENDS Integers, Sequences, FiniteSets, TLC

(***************************************************************************)
(* Bounds of the model.                                                    *)
(***************************************************************************)
\* Largest cookTime a request carries.
MaxCookTime == 1
\* Largest quantity a requirement line of a request carries.
MaxQuantity == 2
\* Frames of gatherRecipeData the call stack holds before the engine throws
\* RangeError ("Maximum call stack size exceeded").
StackLimit == 4

\* Entity names the requests use.  "toString" is also the name of a member
\* of Object.prototype, which every object literal {} inherits.
Names == {"Bread", "Dough", "toString"}

(***************************************************************************)
(* JSON / JavaScript values, tagged with what typeof answers.               *)
(***************************************************************************)
Num(k) == [t |-> "number", n |-> k, s |-> ""]
Str(x) == [t |-> "string", n |-> 0, s |-> x]
Undefined == [t |-> "undefined", n |-> 0, s |-> ""]
\* A function object, such as Object.prototype.toString.
Fn(x) == [t |-> "function", n |-> 0, s |-> x]

Falsy(v) ==
    \/ v.t = "undefined"
    \/ v.t = "string" /\ v.s = ""
    \/ v.t = "number" /\ v.n = 0

\* An element of a requiredItems array: null, or an object with its fields
\* (an absent field reads as undefined).
NullItem == [isNull |-> TRUE, name |-> Undefined, quantity |-> Undefined]
Item(nm, q) == [isNull |-> FALSE, name |-> nm, quantity |-> q]

\* The requiredItems field of a request body: an array, or something else.
NotArray == [isArray |-> FALSE, items |-> <<>>]
Arr(items) == [isArray |-> TRUE, items |-> items]

(***************************************************************************)
(* State.                                                                  *)
(***************************************************************************)
VARIABLES
    inMemoryCookbook,   \* the stored entries, in insertion order
    response,           \* what the last request's handler sent
    last                \* the last request and what its handler ran

vars == <<inMemoryCookbook, response, last>>

NoBody == [has |-> FALSE, name |-> "", cookTime |-> 0, ingredients |-> <<>>]
Send(status) == [status |-> status, body |-> NoBody]

(***************************************************************************)
(* POST /entry (lines 82-150).                                             *)
(***************************************************************************)
\* Mutant of nameExists: the name is looked for among the entries of the
\* candidate's own type only.
nameExistsWithinType(cookbook, entry) ==
    \E i \in DOMAIN cookbook :
        cookbook[i].name = entry.name.s /\ cookbook[i].type = entry.type.s

\* inMemoryCookbook.some((c) => c.name === entry.name), line 94.
nameExists(cookbook, entry) ==
    \E i \in DOMAIN cookbook : cookbook[i].name = entry.name.s

\* entry.requiredItems.map((item) => item.name), line 122.  Reading .name of
\* a null element throws TypeError.
itemNamesThrows(items) ==
    \E i \in DOMAIN items : items[i].isNull
itemNames(items) ==
    [i \in DOMAIN items |-> items[i].name]

\* new Set(itemNames).size !== itemNames.length, line 123.
hasDuplicateItemNames(items) ==
    Cardinality({itemNames(items)[i] : i \in DOMAIN items}) # Len(items)

\* The condition of lines 129-134, for one element.
badItem(item) ==
    \/ item.isNull
    \/ item.name.t # "string"
    \/ item.quantity.t # "number"
    \/ item.quantity.n < 1

\* The entry pushed at lines 106-110.  An ingredient has no requiredItems.
newIngredient(entry) ==
    [name |-> entry.name.s, type |-> "ingredient",
     cookTime |-> entry.cookTime, requiredItems |-> <<>>]

\* The entry pushed at lines 140-144.  A recipe has no cookTime.
newRecipe(entry) ==
    [name |-> entry.name.s, type |-> "recipe",
     cookTime |-> Undefined, requiredItems |-> entry.requiredItems.items]

\* Mutant of entryIngredient: cookTime is only checked to be a number.
entryIngredientAnyNumber(cookbook, entry) ==
    IF entry.cookTime.t # "number"
    THEN [status |-> 400, cookbook |-> cookbook]
    ELSE [status |-> 200, cookbook |-> Append(cookbook, newIngredient(entry))]

\* Validation of the ingredient branch, lines 100-113.
entryIngredient(cookbook, entry) ==
    IF entry.cookTime.t # "number" \/ entry.cookTime.n < 0
    THEN [status |-> 400, cookbook |-> cookbook]
    ELSE [status |-> 200, cookbook |-> Append(cookbook, newIngredient(entry))]

\* Validation of the recipe branch, lines 116-147.  An exception that leaves
\* the handler is answered by Express with status 500.
entryRecipe(cookbook, entry) ==
    IF ~entry.requiredItems.isArray
    THEN [status |-> 400, cookbook |-> cookbook]
    ELSE IF itemNamesThrows(entry.requiredItems.items)
    THEN [status |-> 500, cookbook |-> cookbook]
    ELSE IF hasDuplicateItemNames(entry.requiredItems.items)
    THEN [status |-> 400, cookbook |-> cookbook]
    ELSE IF \E i \in DOMAIN entry.requiredItems.items :
                badItem(entry.requiredItems.items[i])
    THEN [status |-> 400, cookbook |-> cookbook]
    ELSE [status |-> 200, cookbook |-> Append(cookbook, newRecipe(entry))]

\* The whole handler: the status sent and the cookbook it leaves.
postEntry(cookbook, entry) ==
    IF entry.type # Str("recipe") /\ entry.type # Str("ingredient")
    THEN [status |-> 400, cookbook |-> cookbook]
    ELSE IF Falsy(entry.name) \/ entry.name.t # "string"
    THEN [status |-> 400, cookbook |-> cookbook]
    ELSE IF nameExists(cookbook, entry)
    THEN [status |-> 400, cookbook |-> cookbook]
    ELSE IF entry.type = Str("ingredient")
    THEN entryIngredient(cookbook, entry)
    ELSE entryRecipe(cookbook, entry)

(***************************************************************************)
(* gatherRecipeData (lines 198-234) and GET /summary (lines 154-188).      *)
(***************************************************************************)
\* Names of the members every object inherits from Object.prototype.
ObjectPrototypeKeys ==
    {"constructor", "hasOwnProperty", "isPrototypeOf", "propertyIsEnumerable",
     "toLocaleString", "toString", "valueOf"}

\* inMemoryCookbook.find(e => e.name === name): the index of the first match,
\* 0 when there is none (find returns undefined).
find(cookbook, name) ==
    IF \E i \in DOMAIN cookbook : cookbook[i].name = name
    THEN CHOOSE i \in DOMAIN cookbook :
            /\ cookbook[i].name = name
            /\ \A j \in 1..(i - 1) : cookbook[j].name # name
    ELSE 0

\* aggregated[key], for aggregated an object created by the literal {} and
\* kept as its own properties in the order they were created: its own
\* property, else the member inherited from Object.prototype, else undefined.
getProperty(aggregated, key) ==
    IF \E i \in DOMAIN aggregated : aggregated[i].name = key
    THEN aggregated[CHOOSE i \in DOMAIN aggregated : aggregated[i].name = key].quantity
    ELSE IF key \in ObjectPrototypeKeys THEN Fn(key)
    ELSE Undefined

\* aggregated[key] = value: an own property is overwritten in place, a new one
\* is created after the others.
setProperty(aggregated, key, value) ==
    IF \E i \in DOMAIN aggregated : aggregated[i].name = key
    THEN [i \in DOMAIN aggregated |->
            IF aggregated[i].name = key
            THEN [name |-> key, quantity |-> value]
            ELSE aggregated[i]]
    ELSE Append(aggregated, [name |-> key, quantity |-> value])

\* String(v) for the values the aggregation meets.
toStr(v) ==
    IF v.t = "function" THEN "function " \o v.s \o "() { [native code] }"
    ELSE IF v.t = "number" THEN ToString(v.n)
    ELSE v.s

\* (a || 0) + neededQty, line 219: numbers add, anything else concatenates.
orZeroPlus(a, neededQty) ==
    LET left == IF Falsy(a) THEN Num(0) ELSE a
    IN  IF left.t = "number" THEN Num(left.n + neededQty)
        ELSE Str(toStr(left) \o ToString(neededQty))

Result(threw, totalCookTime, aggregated) ==
    [threw |-> threw, totalCookTime |-> totalCookTime, aggregated |-> aggregated]

RECURSIVE gatherRecipeData(_, _, _, _, _)
RECURSIVE gatherLoop(_, _, _, _, _, _, _)

\* The for loop of lines 205-231 from element i on, with the running
\* totalCookTime and the shared aggregated map.
gatherLoop(cookbook, requiredItems, i, multiplier, totalCookTime, aggregated, depth) ==
    IF i > Len(requiredItems) THEN Result("none", totalCookTime, aggregated)
    ELSE
    LET reqItem == requiredItems[i]
        neededQty == reqItem.quantity.n * multiplier
        at == find(cookbook, reqItem.name.s)
    IN  IF at = 0 THEN Result("Missing item", totalCookTime, aggregated)
        ELSE
        LET referenced == cookbook[at] IN
        IF referenced.type = "ingredient"
        THEN gatherLoop(cookbook, requiredItems, i + 1, multiplier,
                        totalCookTime + referenced.cookTime.n * neededQty,
                        setProperty(aggregated, referenced.name,
                            orZeroPlus(getProperty(aggregated, referenced.name), neededQty)),
                        depth)
        ELSE IF referenced.type = "recipe"
        THEN LET subResult == gatherRecipeData(cookbook, referenced, neededQty,
                                               aggregated, depth + 1)
             IN  IF subResult.threw # "none" THEN subResult
                 ELSE gatherLoop(cookbook, requiredItems, i + 1, multiplier,
                                 totalCookTime + subResult.totalCookTime,
                                 subResult.aggregated, depth)
        ELSE Result("Invalid type", totalCookTime, aggregated)

\* One call of gatherRecipeData, the depth-th frame on the stack.  A call
\* the stack has no room for throws RangeError.
gatherRecipeData(cookbook, rec, multiplier, aggregated, depth) ==
    IF depth > StackLimit THEN Result("RangeError", 0, aggregated)
    ELSE gatherLoop(cookbook, rec.requiredItems, 1, multiplier, 0, aggregated, depth)

\* Object.entries(aggregatedIngredients).map(...), lines 174-176.
ingredientsArray(aggregated) ==
    [i \in DOMAIN aggregated |->
        [name |-> aggregated[i].name, quantity |-> aggregated[i].quantity]]

SummaryBody(entry, gathered) ==
    [has |-> TRUE, name |-> entry.name, cookTime |-> gathered.totalCookTime,
     ingredients |-> ingredientsArray(gathered.aggregated)]

\* Mutant of summaryOf: the catch clause answers with what was gathered
\* before the throw.
summaryOfPartial(entry, gathered) ==
    [status |-> 200, body |-> SummaryBody(entry, gathered)]

\* Mutant of summaryOf: the catch clause handles the missing item only, and
\* any other exception leaves the handler.
summaryOfRethrow(entry, gathered) ==
    IF gathered.threw = "Missing item" THEN Send(400)
    ELSE IF gathered.threw # "none" THEN Send(500)
    ELSE [status |-> 200, body |-> SummaryBody(entry, gathered)]

\* The try block of the handler, lines 170-187: the summary, or 400 from the
\* catch clause whatever was thrown.
summaryOf(entry, gathered) ==
    IF gathered.threw # "none" THEN Send(400)
    ELSE [status |-> 200, body |-> SummaryBody(entry, gathered)]

Answer(resp, expanded, threw) ==
    [response |-> resp, expanded |-> expanded, threw |-> threw]

\* Mutant of getSummary: the entry found is expanded whatever its type.
getSummaryAnyEntry(cookbook, name) ==
    LET at == find(cookbook, name) IN
    IF name = "" \/ at = 0 THEN Answer(Send(400), FALSE, "none")
    ELSE LET gathered == gatherRecipeData(cookbook, cookbook[at], 1, <<>>, 1)
         IN  Answer(summaryOf(cookbook[at], gathered), TRUE, gathered.threw)

\* Mutant of getSummary: a name that is no stored recipe is answered 404.
getSummaryNotFound404(cookbook, name) ==
    LET at == find(cookbook, name) IN
    IF name = "" THEN Answer(Send(400), FALSE, "none")
    ELSE IF at = 0 \/ cookbook[at].type # "recipe"
    THEN Answer(Send(404), FALSE, "none")
    ELSE LET gathered == gatherRecipeData(cookbook, cookbook[at], 1, <<>>, 1)
         IN  Answer(summaryOf(cookbook[at], gathered), TRUE, gathered.threw)

\* The whole handler: the response, whether gatherRecipeData was called, and
\* what it threw.
getSummary(cookbook, name) ==
    LET at == find(cookbook, name) IN
    IF name = "" THEN Answer(Send(400), FALSE, "none")
    ELSE IF at = 0 \/ cookbook[at].type # "recipe"
    THEN Answer(Send(400), FALSE, "none")
    ELSE LET gathered == gatherRecipeData(cookbook, cookbook[at], 1, <<>>, 1)
         IN  Answer(summaryOf(cookbook[at], gathered), TRUE, gathered.threw)

(***************************************************************************)
(* The requests the clients send.                                          *)
(***************************************************************************)
Entry(ty, nm, ct, ri) ==
    [type |-> ty, name |-> nm, cookTime |-> ct, requiredItems |-> ri]

\* Well-formed requests: an ingredient with the least or the greatest cook
\* time, a recipe with no requirement line or with one, of the least or the
\* greatest quantity, and one recipe with two lines.
RequestItems == {Item(Str(n), Num(q)) : n \in Names, q \in {1, MaxQuantity}}
IngredientEntries ==
    {Entry(Str("ingredient"), Str(n), Num(ct), NotArray) :
        n \in Names, ct \in {0, MaxCookTime}}
RecipeEntries ==
    {Entry(Str("recipe"), Str(n), Undefined, Arr(a)) :
        n \in Names, a \in {<<>>} \cup {<<g>> : g \in RequestItems}}
    \cup {Entry(Str("recipe"), Str("Bread"), Undefined,
                Arr(<<Item(Str("Dough"), Num(1)), Item(Str("toString"), Num(MaxQuantity))>>))}

\* Malformed requests, each breaking one rule of the handler.
BadItems ==
    {NullItem, Item(Undefined, Num(1)), Item(Str("Dough"), Num(0)),
     Item(Str("Dough"), Undefined)}
BadArrays ==
    {<<b>> : b \in BadItems}
    \cup {<<g, g>> : g \in RequestItems}
    \cup {<<Item(Str("Dough"), Num(1)), NullItem>>,
          <<NullItem, Item(Str("Dough"), Num(1))>>,
          <<Item(Undefined, Num(1)), Item(Undefined, Num(1))>>}
BadEntries ==
    {Entry(Str("recipe"), Str("Bread"), Undefined, ri) :
        ri \in {NotArray} \cup {Arr(a) : a \in BadArrays}}
    \cup {Entry(Str("ingredient"), Str("Bread"), ct, NotArray) :
            ct \in {Num(-1), Undefined}}
    \cup {Entry(Str("ingredient"), nm, Num(0), NotArray) : nm \in {Str(""), Undefined}}
    \cup {Entry(Str("recipe"), nm, Undefined, Arr(<<>>)) : nm \in {Str(""), Undefined}}
    \cup {Entry(ty, Str("Bread"), Num(0), Arr(<<>>)) : ty \in {Str("Recipe"), Undefined}}

Entries == IngredientEntries \cup RecipeEntries \cup BadEntries

\* The name query parameter of GET /summary.
Queries == Names \cup {""}

\* Vocabulary of the claims, recorded with each request: whether the
\* insertion candidate breaks one of the validation rules of the registry, as
\* the specification lists them, against the stored names.
violatesRule(cookbook, entry) ==
    \/ entry.type \notin {Str("ingredient"), Str("recipe")}
    \/ entry.name.t # "string" \/ entry.name.s = ""
    \/ \E i \in DOMAIN cookbook : cookbook[i].name = entry.name.s
    \/ /\ entry.type = Str("ingredient")
       /\ (entry.cookTime.t # "number" \/ entry.cookTime.n < 0)
    \/ /\ entry.type = Str("recipe")
       /\ \/ ~entry.requiredItems.isArray
          \/ \E i, j \in DOMAIN entry.requiredItems.items :
                /\ i # j
                /\ ~entry.requiredItems.items[i].isNull
                /\ ~entry.requiredItems.items[j].isNull
                /\ entry.requiredItems.items[i].name = entry.requiredItems.items[j].name
          \/ \E i \in DOMAIN entry.requiredItems.items :
                LET item == entry.requiredItems.items[i]
                IN  \/ item.isNull
                    \/ item.name.t # "string"
                    \/ item.quantity.t # "number"
                    \/ item.quantity.n < 1

(***************************************************************************)
(* The state machine.                                                      *)
(***************************************************************************)
Init ==
    /\ inMemoryCookbook = <<>>
    /\ response = Send(0)
    /\ last = [op |-> "none", name |-> "", type |-> "", violates |-> FALSE,
               expanded |-> FALSE, threw |-> "none"]

\* One POST /entry request.
PostEntry(entry) ==
    LET r == postEntry(inMemoryCookbook, entry) IN
    /\ inMemoryCookbook' = r.cookbook
    /\ response' = Send(r.status)
    /\ last' = [op |-> "entry",
                name |-> entry.name.s,
                type |-> entry.type.s,
                violates |-> violatesRule(inMemoryCookbook, entry),
                expanded |-> FALSE,
                threw |-> IF r.status = 500 THEN "TypeError" ELSE "none"]

\* Mutant of GetSummary: the entry is taken out of the cookbook by the
\* lookup.
GetSummaryTaking(name) ==
    LET r == getSummary(inMemoryCookbook, name) IN
    /\ inMemoryCookbook' = SelectSeq(inMemoryCookbook, LAMBDA e : e.name # name)
    /\ response' = r.response
    /\ last' = [op |-> "summary", name |-> name, type |-> "", violates |-> FALSE,
                expanded |-> r.expanded, threw |-> r.threw]

\* One GET /summary request.
GetSummary(name) ==
    LET r == getSummary(inMemoryCookbook, name) IN
    /\ inMemoryCookbook' = inMemoryCookbook
    /\ response' = r.response
    /\ last' = [op |-> "summary", name |-> name, type |-> "", violates |-> FALSE,
                expanded |-> r.expanded, threw |-> r.threw]

Next ==
    \/ \E entry \in Entries : PostEntry(entry)
    \/ \E name \in Queries : GetSummary(name)

Spec == Init /\ [][Next]_vars

(***************************************************************************)
(* The resolver on its own.  What GET /summary answers is a function of    *)
(* the registry and the name, so it is also checked over every registry of *)
(* well-formed entries with pairwise distinct names (the registries the    *)
(* insertions build, by C1 and C10) whose recipes hold up to two           *)
(* requirement lines.                                                      *)
(***************************************************************************)
NameOrder == <<"Bread", "Dough", "toString">>
GoodItems == {Item(Str(n), Num(q)) : n \in Names, q \in 1..MaxQuantity}

StoredIngredients(n) ==
    {[name |-> n, type |-> "ingredient", cookTime |-> Num(ct), requiredItems |-> <<>>] :
        ct \in 0..MaxCookTime}
\* Two requirement lines, naming two names in the order of NameOrder.
LinePairs ==
    {<<Item(Str(NameOrder[ij[1]]), Num(q[1])), Item(Str(NameOrder[ij[2]]), Num(q[2]))>> :
        ij \in {x \in (DOMAIN NameOrder) \X (DOMAIN NameOrder) : x[1] < x[2]},
        q \in (1..MaxQuantity) \X (1..MaxQuantity)}
StoredRecipes(n) ==
    {[name |-> n, type |-> "recipe", cookTime |-> Undefined, requiredItems |-> a] :
        a \in {<<>>} \cup {<<g>> : g \in GoodItems} \cup LinePairs}

\* The registries holding some of the first k names, in that order.
RECURSIVE Registries(_)
Registries(k) ==
    IF k = 0 THEN {<<>>}
    ELSE LET before == Registries(k - 1)
         IN  before \cup
             {Append(r, e) : r \in before,
                             e \in StoredIngredients(NameOrder[k])
                                   \cup StoredRecipes(NameOrder[k])}

InitResolve ==
    /\ inMemoryCookbook \in Registries(Len(NameOrder))
    /\ response = Send(0)
    /\ last = [op |-> "none", name |-> "", type |-> "", violates |-> FALSE,
               expanded |-> FALSE, threw |-> "none"]

NextResolve == \E name \in Queries : GetSummary(name)

\* Each of these registries is one the insertions build: posting its entries
\* in order to an empty cookbook stores them all, as they are.
AsRequest(e) ==
    Entry(Str(e.type), Str(e.name), e.cookTime,
          IF e.type = "recipe" THEN Arr(e.requiredItems) ELSE NotArray)
RECURSIVE Replay(_, _)
Replay(cookbook, k) ==
    IF k = 0 THEN <<>>
    ELSE postEntry(Replay(cookbook, k - 1), AsRequest(cookbook[k])).cookbook
RegistriesAreInsertable ==
    Replay(inMemoryCookbook, Len(inMemoryCookbook)) = inMemoryCookbook

Resolve == InitResolve /\ [][NextResolve]_vars

(***************************************************************************)
(* Vocabulary of the claims: the requirement graph of a registry.          *)
(***************************************************************************)
Stored(cookbook, n) == \E i \in DOMAIN cookbook : cookbook[i].name = n
EntityOf(cookbook, n) ==
    cookbook[CHOOSE i \in DOMAIN cookbook : cookbook[i].name = n]
IsRecipe(cookbook, n) ==
    Stored(cookbook, n) /\ EntityOf(cookbook, n).type = "recipe"
IsIngredient(cookbook, n) ==
    Stored(cookbook, n) /\ EntityOf(cookbook, n).type = "ingredient"

\* The names a stored recipe requires directly.
Requires(cookbook, n) ==
    IF IsRecipe(cookbook, n)
    THEN {EntityOf(cookbook, n).requiredItems[i].name.s :
            i \in DOMAIN EntityOf(cookbook, n).requiredItems}
    ELSE {}

RECURSIVE Grow(_, _)
Grow(cookbook, S) ==
    LET T == S \cup UNION {Requires(cookbook, m) : m \in S}
    IN  IF T = S THEN S ELSE Grow(cookbook, T)

\* The names n requires directly or transitively.
Below(cookbook, n) == Grow(cookbook, Requires(cookbook, n))

MissingBelow(cookbook, n) ==
    \E m \in Below(cookbook, n) : ~Stored(cookbook, m)
RequiresItself(cookbook, n) == n \in Below(cookbook, n)
CyclicBelow(cookbook, n) ==
    \E m \in Below(cookbook, n) \cup {n} : RequiresItself(cookbook, m)

\* Units of ingredient ing that one unit of recipe n needs: over every path
\* from n to ing, the product of the quantities along it, summed.  Defined
\* when the graph below n is acyclic.
RECURSIVE Need(_, _, _)
RECURSIVE NeedFrom(_, _, _, _)
NeedFrom(cookbook, items, k, ing) ==
    IF k > Len(items) THEN 0
    ELSE items[k].quantity.n *
            (IF items[k].name.s = ing THEN 1
             ELSE IF IsRecipe(cookbook, items[k].name.s)
                  THEN Need(cookbook, items[k].name.s, ing)
                  ELSE 0)
         + NeedFrom(cookbook, items, k + 1, ing)
Need(cookbook, n, ing) ==
    NeedFrom(cookbook, EntityOf(cookbook, n).requiredItems, 1, ing)

\* The cook time of one unit of recipe n: each stored ingredient's cookTime
\* times the units of it that n needs, summed over entries k..Len(cookbook).
RECURSIVE CookTimeFrom(_, _, _)
CookTimeFrom(cookbook, n, k) ==
    IF k > Len(cookbook) THEN 0
    ELSE (IF cookbook[k].type = "ingredient"
          THEN cookbook[k].cookTime.n * Need(cookbook, n, cookbook[k].name)
          ELSE 0)
         + CookTimeFrom(cookbook, n, k + 1)

\* body is the summary of recipe n: its name, its cook time, and exactly one
\* line, with the needed quantity, for each ingredient it needs.
IsSummaryOf(cookbook, n, body) ==
    /\ body.has
    /\ body.name = n
    /\ body.cookTime = CookTimeFrom(cookbook, n, 1)
    /\ \A i \in DOMAIN body.ingredients :
          /\ IsIngredient(cookbook, body.ingredients[i].name)
          /\ \A j \in DOMAIN body.ingredients :
                body.ingredients[j].name = body.ingredients[i].name => j = i
    /\ \A k \in DOMAIN cookbook :
          cookbook[k].type = "ingredient" =>
            LET need == Need(cookbook, n, cookbook[k].name)
                lines == {i \in DOMAIN body.ingredients :
                            body.ingredients[i].name = cookbook[k].name}
            IN  IF need = 0 THEN lines = {}
                ELSE \E i \in lines : body.ingredients[i].quantity = Num(need)

Summarised == last.op = "summary"
\* The last request asked for the summary of a stored recipe.
SummarisedRecipe == Summarised /\ IsRecipe(inMemoryCookbook, last.name)

(***************************************************************************)
(* Claims about the resolver, checked under Resolve.                       *)
(***************************************************************************)

\* C3: when everything recipe R requires, directly or transitively, is
\* stored and the graph below R is acyclic, the summary of R is answered with
\* status 200, holds for each base ingredient the sum over every path from R
\* of the product of the quantities along the path, and its cookTime is the
\* sum of cookTime times that quantity over the base ingredients.
C3_SummaryIsPathSum ==
    (/\ SummarisedRecipe
     /\ ~MissingBelow(inMemoryCookbook, last.name)
     /\ ~CyclicBelow(inMemoryCookbook, last.name))
    => /\ response.status = 200
       /\ IsSummaryOf(inMemoryCookbook, last.name, response.body)

\* What of C3 the code does keep: the same, for the recipes that need no
\* ingredient named like a member of Object.prototype.
SummaryIsPathSumOffPrototype ==
    (/\ SummarisedRecipe
     /\ ~MissingBelow(inMemoryCookbook, last.name)
     /\ ~CyclicBelow(inMemoryCookbook, last.name)
     /\ \A m \in Below(inMemoryCookbook, last.name) :
            IsIngredient(inMemoryCookbook, m) => m \notin ObjectPrototypeKeys)
    => /\ response.status = 200
       /\ IsSummaryOf(inMemoryCookbook, last.name, response.body)

\* A summary that adds two paths to one ingredient, one of them through a
\* sub-recipe that multiplies.
TwoPathSummary ==
    /\ SummarisedRecipe
    /\ response.status = 200
    /\ \E i \in DOMAIN response.body.ingredients :
          /\ response.body.ingredients[i].quantity = Num(3)
          /\ response.body.ingredients[i].name \notin ObjectPrototypeKeys
    /\ Len(EntityOf(inMemoryCookbook, last.name).requiredItems) = 2
    /\ \E m \in Requires(inMemoryCookbook, last.name) : IsRecipe(inMemoryCookbook, m)
    /\ \E m \in Requires(inMemoryCookbook, last.name) : IsIngredient(inMemoryCookbook, m)

\* C4: when a name recipe R requires, directly or transitively, is not
\* stored, the summary of R is answered with status 400 and no body, whatever
\* was gathered before the missing name was met; on an acyclic graph the
\* failure is the missing item's.
C4_MissingRequirementAborts ==
    (SummarisedRecipe /\ MissingBelow(inMemoryCookbook, last.name))
    => /\ response = Send(400)
       /\ ~CyclicBelow(inMemoryCookbook, last.name) => last.threw = "Missing item"

\* A summary that failed on the second line of a recipe whose first line, a
\* stored ingredient, had been added to the aggregation.
C4_MissingAfterGathering ==
    /\ SummarisedRecipe
    /\ last.threw = "Missing item"
    /\ response = Send(400)
    /\ LET rec == EntityOf(inMemoryCookbook, last.name)
       IN  /\ Len(rec.requiredItems) = 2
           /\ IsIngredient(inMemoryCookbook, rec.requiredItems[1].name.s)
           /\ ~Stored(inMemoryCookbook, rec.requiredItems[2].name.s)

\* C5: a summary asked for a name that is not stored, or is stored as an
\* ingredient, is answered 400 with no body and without calling
\* gatherRecipeData; gatherRecipeData is called exactly when the name is a
\* stored recipe.
C5_NotFoundOrNotRecipe ==
    Summarised =>
        /\ last.expanded <=> IsRecipe(inMemoryCookbook, last.name)
        /\ ~IsRecipe(inMemoryCookbook, last.name) => response = Send(400)

\* A summary asked for a stored ingredient and refused.
C5_IngredientRefused ==
    /\ Summarised
    /\ IsIngredient(inMemoryCookbook, last.name)
    /\ response = Send(400)
    /\ ~last.expanded

\* C6 as stated: the answer to a summary that failed on a missing item
\* differs from the answer the registry gives for a name that is no stored
\* recipe.
C6_FailureKindsDistinguishable ==
    (Summarised /\ last.threw = "Missing item")
    => \A q \in Queries :
          ~IsRecipe(inMemoryCookbook, q)
          => getSummary(inMemoryCookbook, q).response # response

\* C6 as amended: every failed summary, whatever its kind, is answered with
\* status 400 and no body, and a summary that did not fail with status 200
\* and a body; a failure is told from a success, not from another failure.
C6_FailuresShareOneAnswer ==
    Summarised =>
        IF ~IsRecipe(inMemoryCookbook, last.name) \/ last.threw # "none"
        THEN response = Send(400)
        ELSE response.status = 200 /\ response.body.has

\* A summary that failed on a missing item and was answered as a summary of
\* an unknown name is.
C6_MissingAnsweredAsNotFound ==
    /\ SummarisedRecipe
    /\ last.threw = "Missing item"
    /\ \E q \in Queries :
          /\ ~Stored(inMemoryCookbook, q)
          /\ getSummary(inMemoryCookbook, q).response = response

\* C8 as stated: the summary of a recipe that requires itself, directly or
\* transitively, is not answered with a graceful error.
C8_SelfRequiringIsFatal ==
    (SummarisedRecipe /\ RequiresItself(inMemoryCookbook, last.name))
    => response.status # 400

\* C8 as amended: when the graph below recipe R holds a cycle, the expansion
\* recurses until the call stack is exhausted unless it meets a missing item
\* first, the handler catches the exception, and the summary is answered
\* with status 400 and no body; when the graph is acyclic the stack is not
\* exhausted.
C8_CycleEndsInCaughtRangeError ==
    SummarisedRecipe =>
        IF CyclicBelow(inMemoryCookbook, last.name)
        THEN /\ response = Send(400)
             /\ last.threw \in {"RangeError", "Missing item"}
             /\ ~MissingBelow(inMemoryCookbook, last.name) => last.threw = "RangeError"
        ELSE last.threw # "RangeError"

\* A summary of a recipe that requires itself, ended by RangeError and
\* answered 400.
C8_SelfRequiringAnswered400 ==
    /\ SummarisedRecipe
    /\ RequiresItself(inMemoryCookbook, last.name)
    /\ last.threw = "RangeError"
    /\ response = Send(400)

(***************************************************************************)
(* Claims about insertion and about the registry over time, checked under  *)
(* Spec.                                                                   *)
(***************************************************************************)
Inserted == last.op = "entry"

\* C1: no two stored entries share a name, whatever their types; an
\* insertion whose name is already stored is answered 400 and changes
\* nothing; and every stored entry stays where it is, as it is.
C1_NamesStayUnique ==
    /\ [](\A i, j \in DOMAIN inMemoryCookbook :
            inMemoryCookbook[i].name = inMemoryCookbook[j].name => i = j)
    /\ [][/\ (last'.op = "entry" /\ Stored(inMemoryCookbook, last'.name))
             => (response' = Send(400) /\ inMemoryCookbook' = inMemoryCookbook)
          /\ \A i \in DOMAIN inMemoryCookbook :
                /\ i \in DOMAIN inMemoryCookbook'
                /\ inMemoryCookbook'[i] = inMemoryCookbook[i]]_vars

\* An insertion refused because its name is stored, with the other type.
C1_DuplicateAcrossTypesRefused ==
    /\ Inserted
    /\ response = Send(400)
    /\ Stored(inMemoryCookbook, last.name)
    /\ last.type \in {"ingredient", "recipe"}
    /\ EntityOf(inMemoryCookbook, last.name).type # last.type

\* C2: an insertion that breaks a validation rule is answered 400 and leaves
\* the registry as it was, and the registry changes only by an insertion
\* that is answered 200.
C2_InvalidInsertRejected ==
    [][/\ (last'.op = "entry" /\ last'.violates)
          => (response' = Send(400) /\ inMemoryCookbook' = inMemoryCookbook)
       /\ inMemoryCookbook' # inMemoryCookbook
          => (last'.op = "entry" /\ response'.status = 200)]_vars

\* What of C2 the code does keep: such an insertion leaves the registry as
\* it was and is answered 400, or 500 when an element of requiredItems is
\* null; an insertion that breaks no rule is answered 200.
InvalidInsertLeavesRegistry ==
    [][last'.op = "entry" =>
          IF last'.violates
          THEN /\ inMemoryCookbook' = inMemoryCookbook
               /\ response' \in {Send(400), Send(500)}
               /\ response' = Send(500) <=> last'.threw = "TypeError"
          ELSE /\ response' = Send(200)
               /\ Len(inMemoryCookbook') = Len(inMemoryCookbook) + 1]_vars

\* C7: a summary request leaves the registry as it was, whether it succeeds
\* or fails, and asked again for the same name it is answered the same.
C7_SummaryKeepsRegistry ==
    [][/\ last'.op = "summary" => inMemoryCookbook' = inMemoryCookbook
       /\ (Summarised /\ last'.op = "summary" /\ last'.name = last.name)
          => response' = response]_vars

\* A summary that was answered with the ingredients of a recipe.
C7_SummaryAnswered ==
    /\ SummarisedRecipe
    /\ response.status = 200
    /\ Len(response.body.ingredients) > 0

\* C9: a recipe is inserted whether or not the names it requires are stored
\* (the insertion of a candidate that breaks no rule is answered 200); its
\* summary is answered 400 while a name it requires, directly or
\* transitively, is not stored, and once all are stored it is the summary
\* the stored entries determine, whatever the order they were inserted in.
\* The graph is taken to be acyclic, as the resolver assumes.
C9_LazyResolution ==
    /\ (Inserted /\ ~last.violates) => response = Send(200)
    /\ SummarisedRecipe =>
          IF MissingBelow(inMemoryCookbook, last.name) THEN response = Send(400)
          ELSE ~CyclicBelow(inMemoryCookbook, last.name)
               => /\ response.status = 200
                  /\ IsSummaryOf(inMemoryCookbook, last.name, response.body)

\* What of C9 the code does keep: the same, for the recipes that need no
\* ingredient named like a member of Object.prototype.
LazyResolutionOffPrototype ==
    /\ (Inserted /\ ~last.violates) => response = Send(200)
    /\ SummarisedRecipe =>
          IF MissingBelow(inMemoryCookbook, last.name) THEN response = Send(400)
          ELSE (/\ ~CyclicBelow(inMemoryCookbook, last.name)
                /\ \A m \in Below(inMemoryCookbook, last.name) :
                      IsIngredient(inMemoryCookbook, m) => m \notin ObjectPrototypeKeys)
               => /\ response.status = 200
                  /\ IsSummaryOf(inMemoryCookbook, last.name, response.body)

\* A recipe stored before the recipe it requires, which was stored before
\* the ingredient that one requires, and summarised once all three were.
LateRequirementsResolved ==
    /\ SummarisedRecipe
    /\ response.status = 200
    /\ Len(inMemoryCookbook) = 3
    /\ last.name = inMemoryCookbook[1].name
    /\ inMemoryCookbook[2].name \in Requires(inMemoryCookbook, last.name)
    /\ inMemoryCookbook[3].name \in Requires(inMemoryCookbook, inMemoryCookbook[2].name)
    /\ inMemoryCookbook[3].type = "ingredient"

WellFormedItem(item) ==
    /\ ~item.isNull
    /\ item.name.t = "string"
    /\ item.quantity.t = "number"
    /\ item.quantity.n >= 1

WellFormedEntry(e) ==
    /\ e.type \in {"ingredient", "recipe"}
    /\ e.type = "ingredient" => (e.cookTime.t = "number" /\ e.cookTime.n >= 0)
    /\ e.type = "recipe" =>
          /\ \A i \in DOMAIN e.requiredItems : WellFormedItem(e.requiredItems[i])
          /\ \A i, j \in DOMAIN e.requiredItems :
                e.requiredItems[i].name = e.requiredItems[j].name => i = j

\* C10: every stored entry is an ingredient with a numeric cookTime of at
\* least 0 or a recipe whose requirement lines have pairwise distinct string
\* names and numeric quantities of at least 1, and no expansion ends in the
\* branch for an unknown type.
C10_StoredEntriesWellFormed ==
    /\ \A i \in DOMAIN inMemoryCookbook : WellFormedEntry(inMemoryCookbook[i])
    /\ last.threw # "Invalid type"

\* A registry holding an ingredient with cookTime 0 and a recipe that
\* requires it, just expanded by a summary.
C10_ExpandedOverStoredEntries ==
    /\ SummarisedRecipe
    /\ last.expanded
    /\ \E m \in Requires(inMemoryCookbook, last.name) :
          /\ IsIngredient(inMemoryCookbook, m)
          /\ EntityOf(inMemoryCookbook, m).cookTime = Num(0)

====
